---- MODULE Spec2Model ----
(***************************************************************************)
(* smart_renamer: the rename engine of src/smart_renamer/renamer.py.       *)
(*                                                                         *)
(* The state is one flat directory (the `directory` / `folder_path` of     *)
(* the calls) and a wall clock.  A file name is a sequence of tokens; the  *)
(* tokens are chosen prefix-free and so that no token occurs inside        *)
(* another, hence token-wise search and ordering agree with Python's       *)
(* character-wise search and ordering of the joined strings.               *)
(*   "b" "c" "d"            stems of user files                            *)
(*   ".txt" ".json"         extensions                                     *)
(*   "smart_renamer_log_"   the journal prefix of crate_log                *)
(*   ToString(n)            the fixed-width time stamp of second n         *)
(* Renames follow os.rename on POSIX (pathlib.Path.rename).                *)
(***************************************************************************)
EXTENDS Integers, Sequences, FiniteSets, TLC

VARIABLES fs, clock, last, calls, deleted

vars == <<fs, clock, last, calls, deleted>>

(* ------------------------------ bounds -------------------------------- *)

\* the last second the clock reaches
MaxClock == 2

\* longest file name (in tokens) a batch may produce
MaxNameLen == 4

\* how many calls of match_and_rename_files and undo_from_log a run makes
MaxCalls == 2

\* how many entries other programs delete during a run
MaxDeletes == 1

\* the seconds of the long run that journals one batch per second
HistoryLength == 51

(* ------------------------------ names --------------------------------- *)

LogPrefix == "smart_renamer_log_"

Stamp(n) == ToString(n)

LastStamp == MaxClock + HistoryLength

StampToks == {Stamp(n) : n \in 0..LastStamp}

StampVal(tok) == CHOOSE n \in 0..LastStamp : Stamp(n) = tok

\* character order of the tokens: '.' < digits < lower-case letters
Rank(tok) ==
    IF tok \in StampToks THEN 10 + StampVal(tok)
    ELSE CASE tok = ".json" -> 0
           [] tok = ".txt" -> 1
           [] tok = "b" -> 1001
           [] tok = "c" -> 1002
           [] tok = "d" -> 1003
           [] tok = LogPrefix -> 1004
           [] OTHER -> 2000

\* Path.__lt__ on two names of one directory: string comparison
RECURSIVE NameLess(_, _)
NameLess(n1, n2) ==
    IF n1 = <<>> THEN n2 # <<>>
    ELSE IF n2 = <<>> THEN FALSE
    ELSE IF Head(n1) = Head(n2) THEN NameLess(Tail(n1), Tail(n2))
    ELSE Rank(Head(n1)) < Rank(Head(n2))

\* sorted(...) of a set of names
RECURSIVE SortNames(_)
SortNames(S) ==
    IF S = {} THEN <<>>
    ELSE LET m == CHOOSE x \in S : \A y \in S \ {x} : NameLess(x, y)
         IN  <<m>> \o SortNames(S \ {m})

EndsWith(name, suf) ==
    /\ Len(name) >= Len(suf)
    /\ SubSeq(name, Len(name) - Len(suf) + 1, Len(name)) = suf

\* the file name crate_log builds at second n
LogName(n) == <<LogPrefix, Stamp(n), ".json">>

(* --------------------------- the directory ---------------------------- *)

\* a directory entry: kind "file" or "dir"; id is the identity of the
\* content; json says the content parses as a JSON object and ops is its
\* "operations" list; mtime is the second of the last write; locked says
\* the operating system refuses to rename the entry.
File(id, locked) ==
    [kind |-> "file", id |-> id, json |-> FALSE, ops |-> <<>>,
     mtime |-> 0, locked |-> locked]

Dir(id) ==
    [kind |-> "dir", id |-> id, json |-> FALSE, ops |-> <<>>,
     mtime |-> 0, locked |-> FALSE]

Exists(dir, name) == name \in DOMAIN dir

\* dir with the entries of names removed
Without(dir, names) == [n \in (DOMAIN dir) \ names |-> dir[n]]

\* dir with name bound to entry (created or replaced)
With(dir, name, entry) ==
    [n \in (DOMAIN dir) \cup {name} |-> IF n = name THEN entry ELSE dir[n]]

\* Path.rename(old, new): whether the operating system performs it
CanRename(dir, old, new) ==
    /\ Exists(dir, old)
    /\ ~dir[old].locked
    /\ Exists(dir, new) => /\ dir[new].kind = dir[old].kind
                           /\ ~dir[new].locked

\* Path.rename(old, new) performed: new is replaced when it exists
Renamed(dir, old, new) ==
    IF old = new THEN dir ELSE With(Without(dir, {old}), new, dir[old])

(* ------------------------------- glob --------------------------------- *)

\* a glob pattern "*" + suffix, given by its suffix: <<>> is "*",
\* <<".txt">> is "*.txt"
GlobMatch(suffix, name) == EndsWith(name, suffix)

\* directory.glob(match_pattern): every entry whose name matches,
\* regular files and directories alike
PathGlob(dir, suffix) == {n \in DOMAIN dir : GlobMatch(suffix, n)}

DotToks == {".txt", ".json"}

\* glob.glob(os.path.join(log_dir, "*.json")): as above, except that the
\* glob module's "*" does not match a leading dot
GlobJson(dir) ==
    {n \in DOMAIN dir : /\ GlobMatch(<<".json">>, n)
                        /\ Head(n) \notin DotToks}

(* ------------------------------ regex --------------------------------- *)

\* A regex is [lit, grp]: the literal lit followed by nothing (grp "none":
\* the pattern lit), by an unnamed greedy group (grp "pos": lit(.*)) or by
\* a named one (grp "named": lit(?P<g>.*)).

Occurs(lit, name, i) ==
    /\ i + Len(lit) - 1 <= Len(name)
    /\ SubSeq(name, i, i + Len(lit) - 1) = lit

\* regex.search(name): the start of the leftmost match, 0 for None
Search(regex, name) ==
    LET hits == {i \in 1..(Len(name) + 1) : Occurs(regex.lit, name, i)}
    IN  IF hits = {} THEN 0
        ELSE CHOOSE i \in hits : \A j \in hits : i <= j

\* what the group captures for a match starting at i
Captured(regex, name, i) == SubSeq(name, i + Len(regex.lit), Len(name))

\* match.groupdict()
GroupDict(regex, name, i) ==
    IF regex.grp = "named"
    THEN [k \in {"{g}"} |-> Captured(regex, name, i)]
    ELSE <<>>

\* match.groups()
Groups(regex, name, i) ==
    IF regex.grp = "none" THEN <<>> ELSE <<Captured(regex, name, i)>>

\* match.group()
Group0(regex, name, i) ==
    IF regex.grp = "none" THEN regex.lit ELSE SubSeq(name, i, Len(name))

(* --------------------------- str.format ------------------------------- *)

\* A template is a sequence of tokens and replacement fields: "{}" is the
\* auto-numbered field, "{g}", "{h}" and "{counter}" are the fields named
\* g, h and counter.
FieldNames == {"{g}", "{h}", "{counter}"}

FormatError == [ok |-> FALSE, text |-> <<>>]

\* str.format(*args, **kw) from field number auto on: IndexError for an
\* auto-numbered field with no argument left, KeyError for an unknown name
RECURSIVE FormatFrom(_, _, _, _)
FormatFrom(tpl, auto, args, kw) ==
    IF tpl = <<>> THEN [ok |-> TRUE, text |-> <<>>]
    ELSE LET h == Head(tpl)
             piece ==
                 IF h = "{}"
                 THEN IF auto + 1 <= Len(args)
                      THEN [ok |-> TRUE, text |-> args[auto + 1]]
                      ELSE FormatError
                 ELSE IF h \in FieldNames
                 THEN IF h \in DOMAIN kw
                      THEN [ok |-> TRUE, text |-> kw[h]]
                      ELSE FormatError
                 ELSE [ok |-> TRUE, text |-> <<h>>]
             rest == FormatFrom(Tail(tpl), IF h = "{}" THEN auto + 1 ELSE auto,
                                args, kw)
         IN  IF piece.ok /\ rest.ok
             THEN [ok |-> TRUE, text |-> piece.text \o rest.text]
             ELSE FormatError

Format(tpl, args, kw) == FormatFrom(tpl, 0, args, kw)

\* lines 75-84 of renamed_mapper: the new name of one matched file
NewName(regex, rename_pattern, old_name, i) ==
    IF DOMAIN GroupDict(regex, old_name, i) # {}
    THEN Format(rename_pattern, <<>>, GroupDict(regex, old_name, i))
    ELSE IF Groups(regex, old_name, i) # <<>>
    THEN Format(rename_pattern, Groups(regex, old_name, i), <<>>)
    ELSE Format(rename_pattern, <<Group0(regex, old_name, i)>>, <<>>)

(* -------------------------- renamed_mapper ---------------------------- *)

\* mutant of Accepts: the new_path.exists() test is left out
Accepts_NoExistsCheck(dir, rename_map, old_name, new_name) == TRUE

\* whether renamed_mapper appends (old_name, new_name) to rename_map, given
\* the map built so far
Accepts(dir, rename_map, old_name, new_name) == ~Exists(dir, new_name)

\* the rename plan: a sequence of <<old name, new name>>
RECURSIVE MapFrom(_, _, _, _, _)
MapFrom(dir, matched_files, regex, rename_pattern, rename_map) ==
    IF matched_files = <<>> THEN rename_map
    ELSE LET old_name == Head(matched_files)
             i == Search(regex, old_name)
             new == NewName(regex, rename_pattern, old_name, i)
             keep == /\ i # 0
                     /\ new.ok
                     /\ Accepts(dir, rename_map, old_name, new.text)
         IN  MapFrom(dir, Tail(matched_files), regex, rename_pattern,
                     IF keep THEN Append(rename_map, <<old_name, new.text>>)
                     ELSE rename_map)

renamed_mapper(dir, matched_files, regex, rename_pattern) ==
    MapFrom(dir, matched_files, regex, rename_pattern, <<>>)

(* ------------------------------ rename -------------------------------- *)

LogEntry(old, new) == [from |-> old, to |-> new]

\* what rename() does when Path.rename raises at entry i of the plan: the
\* exception leaves the loop and the function
AfterFailure(dir, rename_map, i, entries, dirs) ==
    [fs |-> dir, entries |-> entries, raised |-> TRUE, tried |-> i,
     dirs |-> dirs]

\* the loop of rename() from entry i on; tried is the last entry whose
\* Path.rename was called, dirs[k] the directory as entry k found it
RECURSIVE RenameFrom(_, _, _, _, _)
RenameFrom(dir, rename_map, i, entries, dirs) ==
    IF i > Len(rename_map)
    THEN [fs |-> dir, entries |-> entries, raised |-> FALSE, tried |-> i - 1,
          dirs |-> dirs]
    ELSE LET old == rename_map[i][1]
             new == rename_map[i][2]
         IN  IF CanRename(dir, old, new)
             THEN RenameFrom(Renamed(dir, old, new), rename_map, i + 1,
                             Append(entries, LogEntry(old, new)),
                             Append(dirs, dir))
             ELSE AfterFailure(dir, rename_map, i, entries, Append(dirs, dir))

rename(dir, rename_map) == RenameFrom(dir, rename_map, 1, <<>>, <<>>)

(* ----------------------------- crate_log ------------------------------ *)

Session(rename_log_entries, now) ==
    [kind |-> "file", id |-> "log", json |-> TRUE,
     ops |-> rename_log_entries, mtime |-> now, locked |-> FALSE]

\* open(directory / log_filename, "w") and json.dump: the file of this
\* second is created, or truncated and rewritten when it exists
crate_log(dir, rename_log_entries, now) ==
    With(dir, LogName(now), Session(rename_log_entries, now))

(* ------------------------------- undo --------------------------------- *)

\* mutant of UndoEntry: the dest.exists() test is left out
UndoEntry_NoConflictCheck(dir, entry) ==
    LET src == entry.to
        dest == entry.from
    IN  IF ~Exists(dir, src) THEN [fs |-> dir, result |-> "missing"]
        ELSE IF CanRename(dir, src, dest)
        THEN [fs |-> Renamed(dir, src, dest), result |-> "renamed"]
        ELSE [fs |-> dir, result |-> "failed"]

\* one pass of the loop of undo(): the outcome for entry and the directory
\* after it
UndoEntry(dir, entry) ==
    LET src == entry.to
        dest == entry.from
    IN  IF ~Exists(dir, src) THEN [fs |-> dir, result |-> "missing"]
        ELSE IF Exists(dir, dest) THEN [fs |-> dir, result |-> "conflict"]
        ELSE IF CanRename(dir, src, dest)
        THEN [fs |-> Renamed(dir, src, dest), result |-> "renamed"]
        ELSE [fs |-> dir, result |-> "failed"]

\* the order in which undo() walks the operations of a session
UndoOrder(operations) == operations

\* mutant of UndoFrom: the loop ends at the first missing file (a break
\* where undo() has continue)
RECURSIVE UndoFrom_BreakOnMissing(_, _, _, _)
UndoFrom_BreakOnMissing(dir, todo, results, dirs) ==
    IF todo = <<>> THEN [fs |-> dir, results |-> results, dirs |-> dirs]
    ELSE LET step == UndoEntry(dir, Head(todo))
         IN  IF step.result = "missing"
             THEN [fs |-> dir, results |-> Append(results, step.result),
                   dirs |-> Append(dirs, dir)]
             ELSE UndoFrom_BreakOnMissing(step.fs, Tail(todo),
                                          Append(results, step.result),
                                          Append(dirs, dir))

\* the loop of undo() over the walk order, collecting each entry's outcome
\* and the directory as the entry found it
RECURSIVE UndoFrom(_, _, _, _)
UndoFrom(dir, todo, results, dirs) ==
    IF todo = <<>> THEN [fs |-> dir, results |-> results, dirs |-> dirs]
    ELSE LET step == UndoEntry(dir, Head(todo))
         IN  UndoFrom(step.fs, Tail(todo), Append(results, step.result),
                      Append(dirs, dir))

undo(dir, operations) == UndoFrom(dir, UndoOrder(operations), <<>>, <<>>)

\* get_latest_log: the *.json entries of the folder with the greatest
\* mtime (max() returns one of them)
get_latest_log(dir) ==
    {n \in GlobJson(dir) : \A m \in GlobJson(dir) : dir[m].mtime <= dir[n].mtime}

(* --------------------------- confirmation ----------------------------- *)

\* what the user may type at a prompt
Answers == {"y", "Y", "n"}

\* input(...).strip().lower()
StripLower(answer) ==
    CASE answer = "Y" -> "y"
      [] OTHER -> answer

\* mutant of Confirmed: any answer typed at the prompt proceeds
Confirmed_AnyAnswer(auto_yes, answer) == auto_yes \/ answer # ""

\* lines 198-202 and 158-162: the prompt is skipped with auto_yes, and
\* otherwise only the normalised answer "y" proceeds
Confirmed(auto_yes, answer) == auto_yes \/ StripLower(answer) = "y"

\* mutant of Proceeds: the dry_run test is left out
Proceeds_IgnoresDryRun(dry_run, auto_yes, answer) ==
    Confirmed(auto_yes, answer)

\* lines 194-202 of match_and_rename_files: whether the call goes on to
\* rename()
Proceeds(dry_run, auto_yes, answer) ==
    ~dry_run /\ Confirmed(auto_yes, answer)

\* the answer given at the prompt, "" when no prompt was shown
Asked(prompted, answer) == IF prompted THEN answer ELSE ""

\* the answers a call may read: none is read with auto_yes
Prompt(auto_yes) == IF auto_yes THEN {""} ELSE Answers

(* ------------------------------ inputs -------------------------------- *)

\* match patterns: "*" and "*.txt"
Globs == {<<>>, <<".txt">>}

\* regex patterns: (.*)   \.txt   (?P<g>.*)
Regexes ==
    {[lit |-> <<>>, grp |-> "pos"],
     [lit |-> <<".txt">>, grp |-> "none"],
     [lit |-> <<>>, grp |-> "named"]}

\* rename patterns: d{}   c.txt   {g}.json
Templates == {<<"d", "{}">>, <<"c", ".txt">>, <<"{g}", ".json">>}

\* the selector "latest" of undo_from_log
Latest == <<"latest">>

(* ------------------------------- state -------------------------------- *)

\* last: what the most recent call did.  before is the directory as the
\* call found it; prompted says a confirmation was asked for and answer is
\* what was typed; plan is the rename_map shown in the preview (for an
\* undo: the operations read); entries the rename_log_entries; tried the
\* last plan entry whose rename was called; dirs[k] the directory as entry
\* k of the loop found it; log the journal written or read; results the
\* outcome of each undo entry; follows says an undo reads the journal of
\* the call just before it, and origin is then the set of names the
\* directory held before that batch; path is the log_path an undo was
\* given and walk the entries in the order its loop took them; start is
\* the --start of an increment-mode call and counters[k] the counter value
\* its k-th change was resolved with.
Blank ==
    [op |-> "init", outcome |-> "", dry_run |-> FALSE, auto_yes |-> FALSE,
     prompted |-> FALSE, answer |-> "", before |-> <<>>, plan |-> <<>>,
     entries |-> <<>>, tried |-> 0, dirs |-> <<>>, log |-> <<>>,
     results |-> <<>>, follows |-> FALSE, origin |-> {}, path |-> <<>>,
     walk |-> <<>>, start |-> 0, counters |-> <<>>]

InitDirs ==
    {[n \in {<<"b", ".txt">>, <<"c", ".txt">>} \cup extra |->
        IF n = <<"c", "b", ".txt">> THEN Dir("d1")
        ELSE IF n = <<"b", ".txt">> THEN File("f1", "b" \in locked)
        ELSE File("f2", "c" \in locked)]
     : extra \in {{}, {<<"c", "b", ".txt">>}}, locked \in {{}, {"b"}, {"c"}}}

Init ==
    /\ fs \in InitDirs
    /\ clock = 1
    /\ last = Blank
    /\ calls = 0
    /\ deleted = 0

(* ------------------------------ actions ------------------------------- *)

\* the outcome of match_and_rename_files, by the return it leaves through
ApplyOutcome(matched_files, rename_map, dry_run, go, raised) ==
    IF matched_files = <<>> THEN "nomatch"
    ELSE IF rename_map = <<>> THEN "noplan"
    ELSE IF dry_run THEN "dry"
    ELSE IF ~go THEN "cancelled"
    ELSE IF raised THEN "raised"
    ELSE "logged"

\* match_and_rename_files(directory, match_pattern, rename_pattern,
\*                        regex_pattern, dry_run, auto_yes), its arguments
\* drawn from the given sets
ApplyWith(globs, regexes, templates, dry_runs, auto_yeses) ==
    \E match_pattern \in globs, regex \in regexes, rename_pattern \in templates :
    \E matched_files \in {SortNames(PathGlob(fs, match_pattern))} :
    \E rename_map \in
          {renamed_mapper(fs, matched_files, regex, rename_pattern)} :
    \E done \in {rename(fs, rename_map)} :
    \E dry_run \in dry_runs, auto_yes \in auto_yeses :
    \E answer \in Prompt(auto_yes) :
    LET reached == matched_files # <<>> /\ rename_map # <<>>
        prompted == reached /\ ~dry_run /\ ~auto_yes
        go == reached /\ Proceeds(dry_run, auto_yes, answer)
        outcome == ApplyOutcome(matched_files, rename_map, dry_run, go,
                                done.raised)
    IN  /\ \A i \in 1..Len(rename_map) : Len(rename_map[i][2]) <= MaxNameLen
        /\ fs' = IF ~go THEN fs
                 ELSE IF done.raised THEN done.fs
                 ELSE crate_log(done.fs, done.entries, clock)
        /\ last' = [Blank EXCEPT
                      !.op = "apply", !.outcome = outcome,
                      !.dry_run = dry_run, !.auto_yes = auto_yes,
                      !.prompted = prompted,
                      !.answer = Asked(prompted, answer),
                      !.before = fs, !.plan = rename_map,
                      !.entries = IF go THEN done.entries ELSE <<>>,
                      !.tried = IF go THEN done.tried ELSE 0,
                      !.dirs = IF go THEN done.dirs ELSE <<>>,
                      !.log = IF outcome = "logged" THEN LogName(clock)
                              ELSE <<>>]

Apply ==
    /\ calls < MaxCalls
    /\ ApplyWith(Globs, Regexes, Templates, BOOLEAN, BOOLEAN)
    /\ calls' = calls + 1
    /\ UNCHANGED <<clock, deleted>>

\* the outcome of undo_from_log, by the return it leaves through
UndoOutcome(dir, log_file, go) ==
    IF log_file = <<>> THEN "nologs"
    ELSE IF ~Exists(dir, log_file) THEN "notfound"
    ELSE IF dir[log_file].kind # "file" THEN "raised"
    ELSE IF ~dir[log_file].json THEN "invalid"
    ELSE IF ~go THEN "cancelled"
    ELSE "done"

\* mutant of LogFile: a named path that does not exist falls back on the
\* latest journal of the folder
LogFile_LatestWhenMissing(dir, log_path) ==
    IF Exists(dir, log_path) \/ get_latest_log(dir) = {} THEN log_path
    ELSE CHOOSE n \in get_latest_log(dir) : TRUE

\* line 139 of undo_from_log: log_file = Path(log_path), the file a named
\* log_path stands for
LogFile(dir, log_path) == log_path

\* undo_from_log(log_path, folder_path, auto_yes) with log_file the file
\* it reads: the latest journal or the named path
Undo(log_path, log_file, auto_yes, answer) ==
    LET found == log_file # <<>> /\ Exists(fs, log_file)
        readable == found /\ fs[log_file].kind = "file" /\ fs[log_file].json
        operations == IF readable THEN fs[log_file].ops ELSE <<>>
        prompted == readable /\ ~auto_yes
        go == readable /\ Confirmed(auto_yes, answer)
        follows == /\ readable
                   /\ last.op = "apply"
                   /\ last.outcome = "logged"
                   /\ last.log = log_file
    IN  \E done \in {undo(fs, operations)} :
        /\ fs' = IF go THEN done.fs ELSE fs
        /\ last' = [Blank EXCEPT
                      !.op = "undo",
                      !.outcome = UndoOutcome(fs, log_file, go),
                      !.auto_yes = auto_yes,
                      !.prompted = prompted,
                      !.answer = Asked(prompted, answer),
                      !.before = fs, !.plan = operations,
                      !.results = IF go THEN done.results ELSE <<>>,
                      !.dirs = IF go THEN done.dirs ELSE <<>>,
                      !.log = log_file,
                      !.path = log_path,
                      !.walk = IF go THEN UndoOrder(operations) ELSE <<>>,
                      !.follows = follows,
                      !.origin = IF follows THEN DOMAIN last.before ELSE {}]
        /\ calls' = calls + 1
        /\ UNCHANGED <<clock, deleted>>

\* undo_from_log("latest", ...): lines 135-138
UndoLatest ==
    /\ calls < MaxCalls
    /\ \E auto_yes \in BOOLEAN : \E answer \in Prompt(auto_yes) :
          IF get_latest_log(fs) = {}
          THEN Undo(Latest, <<>>, auto_yes, answer)
          ELSE \E log_file \in get_latest_log(fs) :
                  Undo(Latest, log_file, auto_yes, answer)

\* undo_from_log(path, ...) for a path in the folder, or one that is not
UndoNamed ==
    /\ calls < MaxCalls
    /\ \E log_path \in (DOMAIN fs) \cup {LogName(0)}, auto_yes \in BOOLEAN :
          \E answer \in Prompt(auto_yes) :
             Undo(log_path, LogFile(fs, log_path), auto_yes, answer)

\* another program deletes a file or a directory that is no journal
ExternalDelete ==
    /\ deleted < MaxDeletes
    /\ \E name \in {n \in DOMAIN fs : ~fs[n].json} :
          fs' = Without(fs, {name})
    /\ last' = [Blank EXCEPT !.op = "env", !.before = fs]
    /\ deleted' = deleted + 1
    /\ UNCHANGED <<clock, calls>>

\* a second passes
Tick ==
    /\ clock < MaxClock
    /\ clock' = clock + 1
    /\ UNCHANGED <<fs, last, calls, deleted>>

Next ==
    \/ Apply
    \/ UndoLatest
    \/ UndoNamed
    \/ ExternalDelete
    \/ Tick

Spec == Init /\ [][Next]_vars

(* ------------------- a long run of journaled batches ------------------ *)

\* rename patterns of the long run: c.txt   b.txt
HistoryTemplates == {<<"c", ".txt">>, <<"b", ".txt">>}

InitHistory ==
    /\ fs = [n \in {<<"b", ".txt">>} |-> File("f1", FALSE)]
    /\ clock = 1
    /\ last = Blank
    /\ calls = 0
    /\ deleted = 0

\* match_and_rename_files(directory, "*.txt", pattern, "(.*)",
\*                        dry_run=False, auto_yes=True), called until the
\* batch of this second is journaled
ApplyHistory ==
    /\ ~Exists(fs, LogName(clock))
    /\ ApplyWith({<<".txt">>}, {[lit |-> <<>>, grp |-> "pos"]},
                 HistoryTemplates, {FALSE}, {TRUE})
    /\ UNCHANGED <<clock, calls, deleted>>

\* a second passes, once the batch of this second is journaled
TickHistory ==
    /\ Exists(fs, LogName(clock))
    /\ clock < HistoryLength
    /\ clock' = clock + 1
    /\ UNCHANGED <<fs, last, calls, deleted>>

NextHistory ==
    \/ ApplyHistory
    \/ TickHistory

SpecHistory == InitHistory /\ [][NextHistory]_vars

(* --------------------------- increment mode --------------------------- *)

\* cli.py passes --mode and --start to rename_files(), which builds the
\* changes; the increment mode of rename_files is modelled from sections
\* 4.1 and 4.2 of the specification.

MaxStart == 2

\* match(directory, "all entries", recursive=False): the regular files of
\* the directory, sorted by path
match(dir) == SortNames({n \in DOMAIN dir : dir[n].kind = "file"})

\* the positional part of the CaptureSet: the unnamed groups, or the whole
\* match when the regex has no group
Positional(regex, filename, i) ==
    IF regex.grp = "named" THEN <<>>
    ELSE IF Groups(regex, filename, i) # <<>> THEN Groups(regex, filename, i)
    ELSE <<Group0(regex, filename, i)>>

\* the CaptureSet holding the counter alone
CounterOnly(counter) == [k \in {"{counter}"} |-> <<Stamp(counter)>>]

\* the named part of the CaptureSet: the counter under "counter" and the
\* named groups of the match
CaptureSet(regex, filename, i, counter) ==
    [k \in {"{counter}"} \cup DOMAIN GroupDict(regex, filename, i) |->
        IF k = "{counter}" THEN <<Stamp(counter)>>
        ELSE GroupDict(regex, filename, i)[k]]

Skip(reason, counter) ==
    [ok |-> FALSE, new_name |-> <<>>, reason |-> reason,
     next_counter |-> counter]

\* template resolution: against the CaptureSet, then against the counter
\* alone
Resolve(regex, template, filename, i, counter) ==
    LET first == Format(template, Positional(regex, filename, i),
                        CaptureSet(regex, filename, i, counter))
    IN  IF first.ok THEN first
        ELSE Format(template, <<>>, CounterOnly(counter))

\* mutant of transform: a skipped file takes a counter value with it
transform_SkipConsumes(filename, regex, template, counter) ==
    LET i == Search(regex, filename)
        new == Resolve(regex, template, filename, i, counter)
    IN  IF i = 0 THEN Skip("NoRegexMatch", counter + 1)
        ELSE IF ~new.ok THEN Skip("PlaceholderError", counter + 1)
        ELSE [ok |-> TRUE, new_name |-> new.text, reason |-> "",
              next_counter |-> counter + 1]

\* transform(filename, regex, "increment", template, counter):
\* (new_name, next_counter) or Skip(reason)
transform(filename, regex, template, counter) ==
    LET i == Search(regex, filename)
        new == Resolve(regex, template, filename, i, counter)
    IN  IF i = 0 THEN Skip("NoRegexMatch", counter)
        ELSE IF ~new.ok THEN Skip("PlaceholderError", counter)
        ELSE [ok |-> TRUE, new_name |-> new.text, reason |-> "",
              next_counter |-> counter + 1]

\* the candidates in order, each transformed with the counter its
\* predecessors left
RECURSIVE ChangesFrom(_, _, _, _, _)
ChangesFrom(files, regex, template, counter, changes) ==
    IF files = <<>> THEN changes
    ELSE LET t == transform(Head(files), regex, template, counter)
         IN  ChangesFrom(Tail(files), regex, template, t.next_counter,
                         IF t.ok
                         THEN Append(changes, [old |-> Head(files),
                                               new |-> t.new_name,
                                               counter |-> counter])
                         ELSE changes)

\* rename_files(directory, match_pattern, replace_pattern, "increment",
\*              start, recursive=False)
rename_files(dir, regex, replace_pattern, start) ==
    ChangesFrom(match(dir), regex, replace_pattern, start, <<>>)

\* match patterns of the increment runs: (.*)   \.txt   (?P<g>.*)   b
IncrementRegexes == Regexes \cup {[lit |-> <<"b">>, grp |-> "none"]}

\* replace patterns: d{counter}.txt   {}{counter}   {g}{counter}
\* {h}{counter}
IncrementTemplates ==
    {<<"d", "{counter}", ".txt">>, <<"{}", "{counter}">>,
     <<"{g}", "{counter}">>, <<"{h}", "{counter}">>}

IncrementDirs ==
    {[n \in S |-> IF n = <<"d">> THEN Dir("d1") ELSE File("f1", FALSE)]
     : S \in (SUBSET {<<"b", ".txt">>, <<"c", ".txt">>, <<"c", "b", ".txt">>,
                       <<"d">>}) \ {{}}}

InitIncrement ==
    /\ fs \in IncrementDirs
    /\ clock = 1
    /\ last = Blank
    /\ calls = 0
    /\ deleted = 0

\* main() of cli.py with --mode increment: the changes rename_files
\* returns
RenameFilesIncrement ==
    /\ calls < MaxCalls
    /\ \E regex \in IncrementRegexes, replace_pattern \in IncrementTemplates,
          start \in 0..MaxStart :
       \E changes \in {rename_files(fs, regex, replace_pattern, start)} :
          last' = [Blank EXCEPT
                     !.op = "increment",
                     !.before = fs,
                     !.start = start,
                     !.plan = [k \in 1..Len(changes) |->
                                 <<changes[k].old, changes[k].new>>],
                     !.counters = [k \in 1..Len(changes) |->
                                     changes[k].counter]]
    /\ calls' = calls + 1
    /\ UNCHANGED <<fs, clock, deleted>>

NextIncrement == RenameFilesIncrement

SpecIncrement == InitIncrement /\ [][NextIncrement]_vars

(* ------------------ a directory used since its batch ------------------ *)

\* a file the user wrote at second now
Written(id, now) == [File(id, FALSE) EXCEPT !.mtime = now]

\* Directories in which match_and_rename_files("*.txt", "d{}", "(.*)")
\* journaled a batch at second 0 and that were used afterwards: in the
\* first a new b.txt was created, in the second dc.txt was deleted and the
\* user saved c.json at second 1.
LaterDirs ==
    {[n \in {<<"b", ".txt">>, <<"d", "b", ".txt">>, <<"d", "c", ".txt">>,
              LogName(0)} |->
        IF n = LogName(0)
        THEN Session(<<LogEntry(<<"b", ".txt">>, <<"d", "b", ".txt">>),
                       LogEntry(<<"c", ".txt">>, <<"d", "c", ".txt">>)>>, 0)
        ELSE IF n = <<"b", ".txt">> THEN File("f3", FALSE)
        ELSE IF n = <<"d", "b", ".txt">> THEN File("f1", FALSE)
        ELSE File("f2", FALSE)],
     [n \in {<<"d", "b", ".txt">>, <<"c", ".json">>, LogName(0)} |->
        IF n = LogName(0)
        THEN Session(<<LogEntry(<<"b", ".txt">>, <<"d", "b", ".txt">>),
                       LogEntry(<<"c", ".txt">>, <<"d", "c", ".txt">>)>>, 0)
        ELSE IF n = <<"c", ".json">> THEN Written("f4", 1)
        ELSE File("f1", FALSE)]}

InitLater ==
    /\ fs \in LaterDirs
    /\ clock = 1
    /\ last = Blank
    /\ calls = 0
    /\ deleted = 0

SpecLater == InitLater /\ [][Next]_vars

(* ------------------------------ claims -------------------------------- *)

\* the call just made went on to rename(): it was no dry run, the plan was
\* not empty and the confirmation was given
Renaming == last.op = "apply" /\ last.outcome \in {"raised", "logged"}

\* the journals the directory holds: what get_latest_log and undo_from_log
\* can load
Journals == {n \in DOMAIN fs : fs[n].kind = "file" /\ fs[n].json}

\* C1: the plan renamed_mapper builds never holds two operations with the
\* same target path.
C1_PlanTargetsDistinct ==
    last.op = "apply" =>
        \A i, j \in 1..Len(last.plan) :
            i # j => last.plan[i][2] # last.plan[j][2]

\* C2: when every journaled entry passes the undo checks, a confirmed batch
\* followed by the undo of its session leaves the directory with exactly
\* the set of file names it had before the batch.
C2_ApplyUndoRestoresNames ==
    ( /\ last.op = "undo"
      /\ last.outcome = "done"
      /\ last.follows
      /\ \A i \in 1..Len(last.results) :
            last.results[i] \notin {"missing", "conflict"} )
    => DOMAIN fs = last.origin

\* C3: a plan entry whose rename fails never keeps the later entries from
\* being attempted: rename() calls Path.rename for every entry of the plan.
C3_FailureIsIsolated == Renaming => last.tried = Len(last.plan)

\* C4: after a confirmed apply that renamed at least one file, the journal
\* holds a session whose operations are exactly the renames that succeeded,
\* in apply order, also when an entry of the batch failed.
C4_SucceededAreJournaled ==
    (Renaming /\ last.entries # <<>>) =>
        \E n \in Journals : fs[n].ops = last.entries

\* C5: a call with dry_run set leaves the directory as it found it,
\* whatever auto_yes is: nothing is renamed and no journal is created.
C5_DryRunChangesNothing ==
    (last.op = "apply" /\ last.dry_run) => fs = last.before

\* C5 witness: a dry run with auto_yes set whose plan was not empty
C5_Witness ==
    /\ last.op = "apply"
    /\ last.dry_run
    /\ last.auto_yes
    /\ last.plan # <<>>

\* the directory after entry k of a loop, given the directories each entry
\* found and the directory the loop left
DirAfter(k) == IF k < Len(last.dirs) THEN last.dirs[k + 1] ELSE fs

\* C6: in an undo, an entry whose applied target is gone is skipped as a
\* missing file, and every entry whose target exists and whose original
\* name is free is renamed back, whatever happened to the other entries.
C6_UndoSkipsOnlyTheMissing ==
    (last.op = "undo" /\ last.outcome = "done") =>
        /\ Len(last.results) = Len(last.plan)
        /\ Len(last.dirs) = Len(last.plan)
        /\ \A k \in 1..Len(last.plan) :
              LET src == last.plan[k].to
                  dest == last.plan[k].from
                  dir == last.dirs[k]
              IN  /\ ~Exists(dir, src) =>
                        /\ last.results[k] = "missing"
                        /\ DirAfter(k) = dir
                  /\ (Exists(dir, src) /\ ~Exists(dir, dest)) =>
                        /\ last.results[k] = "renamed"
                        /\ ~Exists(DirAfter(k), src)
                        /\ Exists(DirAfter(k), dest)
                        /\ DirAfter(k)[dest] = dir[src]

\* C6 witness: an undo in which one entry was missing and a later one was
\* renamed back
C6_Witness ==
    /\ last.op = "undo"
    /\ last.outcome = "done"
    /\ \E i, j \in 1..Len(last.results) :
          /\ i < j
          /\ last.results[i] = "missing"
          /\ last.results[j] = "renamed"

\* C7: the persisted history holds at most 50 sessions after any sequence
\* of applied batches: a session written when 50 are stored evicts the
\* oldest.
C7_HistoryCapped == Cardinality(Journals) <= 50

\* C8: once the undo of a session has completed, the session is out of the
\* journal: an undo of the most recent session does not select it again.
C8_UndoneSessionIsRemoved ==
    (last.op = "undo" /\ last.outcome = "done") =>
        last.log \notin get_latest_log(fs)

\* C9 as claimed: with auto_yes off, any answer other than "y" leaves the
\* files and the journals as they were, in apply and in undo alike.
C9_AnyOtherAnswerDeclines ==
    (last.op \in {"apply", "undo"} /\ last.prompted /\ last.answer # "y")
    => fs = last.before

\* C9 as amended: with auto_yes off, any answer that is not "y" once
\* stripped and lower-cased leaves the files and the journals as they were.
C9_DeclineChangesNothing ==
    ( /\ last.op \in {"apply", "undo"}
      /\ last.prompted
      /\ StripLower(last.answer) # "y" )
    => fs = last.before

\* C9 witness: an undo declined at the prompt, of a session with an entry
\* that could have been renamed back
C9_Witness ==
    /\ last.op = "undo"
    /\ last.outcome = "cancelled"
    /\ last.answer = "n"
    /\ \E k \in 1..Len(last.plan) :
          /\ Exists(fs, last.plan[k].to)
          /\ ~Exists(fs, last.plan[k].from)

\* C10: the candidates of a batch are regular files: no directory is in
\* the plan and none is renamed by apply.
C10_CandidatesAreRegularFiles ==
    last.op = "apply" =>
        /\ \A i \in 1..Len(last.plan) :
              last.before[last.plan[i][1]].kind = "file"
        /\ \A i \in 1..Len(last.entries) :
              last.before[last.entries[i].from].kind = "file"

\* lemma used by C6: no undo entry ends in the except branch of undo()
\* (lines 128-129), since the lock state of a file never changes and every
\* journaled target was put there by a rename that succeeded
UndoNeverFails ==
    \A k \in 1..Len(last.results) : last.results[k] # "failed"

\* the journal an undo was asked for is missing: no *.json in the folder
\* for "latest", no file at the named path otherwise
JournalMissing ==
    IF last.path = Latest THEN GlobJson(last.before) = {}
    ELSE ~Exists(last.before, last.path)

\* the journal an undo selected is a regular file that is not valid JSON
JournalCorrupt ==
    LET log_file == IF last.path = Latest THEN last.log ELSE last.path
    IN  /\ Exists(last.before, log_file)
        /\ last.before[log_file].kind = "file"
        /\ ~last.before[log_file].json

\* C11: when the journal selected for an undo is missing or is not valid
\* JSON, undo_from_log returns without asking, with no file renamed and
\* the journal unchanged.
C11_BadJournalChangesNothing ==
    (last.op = "undo" /\ (JournalMissing \/ JournalCorrupt)) =>
        /\ fs = last.before
        /\ ~last.prompted
        /\ last.results = <<>>
        /\ last.outcome \in {"nologs", "notfound", "invalid"}

\* C11 witness: "latest" selected a *.json file that is no valid JSON,
\* in a folder where an earlier batch had renamed a file
C11_Witness ==
    /\ last.op = "undo"
    /\ last.path = Latest
    /\ JournalCorrupt
    /\ \E n \in DOMAIN fs : fs[n].kind = "file" /\ ~fs[n].json /\ n # last.log

\* C11 witness of the other case: the named journal does not exist while
\* the folder holds a session that could be undone
C11_MissingNamed ==
    /\ last.op = "undo"
    /\ last.path # Latest
    /\ JournalMissing
    /\ Journals # {}

\* whether the name holds the token tok
Holds(name, tok) == \E p \in 1..Len(name) : name[p] = tok

C13_UndoWalksInReverse ==
    (last.op = "undo" /\ last.outcome = "done") =>
        /\ Len(last.walk) = Len(last.plan)
        /\ \A k \in 1..Len(last.plan) :
              last.walk[k] = last.plan[Len(last.plan) + 1 - k]

\* the sessions a directory holds
SessionsOf(dir) == {n \in DOMAIN dir : dir[n].kind = "file" /\ dir[n].json}

\* C14: an undo with the selector "latest" reads the session journaled
\* last for the directory, whatever other files the directory holds: the
\* file it selects is a session, no session is newer, and the operations it
\* goes on with are the operations of that session.
C14_LatestIsTheLastSession ==
    ( /\ last.op = "undo"
      /\ last.path = Latest
      /\ SessionsOf(last.before) # {} )
    => /\ last.log \in SessionsOf(last.before)
       /\ \A m \in SessionsOf(last.before) :
             last.before[m].mtime <= last.before[last.log].mtime
       /\ last.plan = last.before[last.log].ops

\* C15: every operation of the plan renamed_mapper builds has a target
\* that did not exist in the directory when the plan was built, so a
\* candidate whose new name is taken, its own name included, is not in the
\* plan and the source of an operation differs from its target.
C15_PlanTargetsAreFree ==
    last.op = "apply" =>
        \A i \in 1..Len(last.plan) :
            /\ Exists(last.before, last.plan[i][1])
            /\ ~Exists(last.before, last.plan[i][2])
            /\ last.plan[i][1] # last.plan[i][2]

\* C15 witness: a plan of "d{}" over "(.*)" with an operation in it and a
\* candidate left out because the name it would get was taken
C15_Witness ==
    /\ last.op = "apply"
    /\ last.plan # <<>>
    /\ \A i \in 1..Len(last.plan) :
          last.plan[i][2] = <<"d">> \o last.plan[i][1]
    /\ \E n \in DOMAIN last.before :
          /\ EndsWith(n, <<".txt">>)
          /\ Exists(last.before, <<"d">> \o n)
          /\ \A i \in 1..Len(last.plan) : last.plan[i][1] # n

\* C16: in an undo an entry is renamed back only if, at that moment, its
\* applied target exists and its original name is not taken: an entry
\* whose original name is occupied leaves the directory as it is, and the
\* entries after it are still attempted.
C16_UndoNeverOverwrites ==
    (last.op = "undo" /\ last.outcome = "done") =>
        /\ Len(last.dirs) = Len(last.plan)
        /\ Len(last.results) = Len(last.plan)
        /\ \A k \in 1..Len(last.plan) :
              LET src == last.plan[k].to
                  dest == last.plan[k].from
                  dir == last.dirs[k]
              IN  /\ DirAfter(k) # dir =>
                        /\ Exists(dir, src)
                        /\ ~Exists(dir, dest)
                        /\ DirAfter(k) = Renamed(dir, src, dest)
                  /\ Exists(dir, dest) => DirAfter(k) = dir
                  /\ (Exists(dir, src) /\ Exists(dir, dest)) =>
                        last.results[k] = "conflict"

\* C16 witness: an undo in which an entry met its original name occupied
\* and a later entry was renamed back
C16_Witness ==
    /\ last.op = "undo"
    /\ last.outcome = "done"
    /\ \E i, j \in 1..Len(last.results) :
          /\ i < j
          /\ last.results[i] = "conflict"
          /\ Exists(last.dirs[i], last.plan[i].from)
          /\ last.results[j] = "renamed"

\* C17: a session once written is never altered or replaced by a later
\* apply: after a journaled batch, every session the directory held before
\* it and that the batch did not rename is still there, beside the new
\* one, with the operations it recorded, also when the earlier batch ended
\* within the same clock second.
C17_SessionsAreKept ==
    (last.op = "apply" /\ last.outcome = "logged") =>
        \A n \in SessionsOf(last.before) :
            (\A i \in 1..Len(last.plan) : last.plan[i][1] # n) =>
                /\ n # last.log
                /\ Exists(fs, n)
                /\ fs[n] = last.before[n]

\* the entries of a directory, the journal of the last call aside
UserFiles(dir) == (DOMAIN dir) \ {last.log}

\* C18: apply never destroys a file: every rename performed by rename()
\* targets a path that does not exist at the moment of that rename, so a
\* batch leaves as many user files in the directory as it found, the
\* journal file aside.
C18_ApplyDestroysNothing ==
    Renaming =>
        /\ \A k \in 1..Len(last.entries) :
              ~Exists(last.dirs[k], last.entries[k].to)
        /\ Cardinality(UserFiles(fs)) = Cardinality(UserFiles(last.before))

====
